---------------------------- MODULE Spec2Model ----------------------------
(***************************************************************************)
(* Model of the incremental readout renderer of src/App.tsx                *)
(* (the RoboticReadout component): the block segmenter, the progressive    *)
(* revealer with its reveal timer, the block stylist and the math fragment *)
(* renderer; and of the handlers of the App component that call the        *)
(* generative service (handleSend, startQuiz).                             *)
(*                                                                         *)
(* A JavaScript string is modelled as a sequence of one-character strings. *)
(***************************************************************************)
EXTENDS Integers, Sequences, FiniteSets, TLC

(***************************************************************************)
(* Bounds of the model.                                                    *)
(***************************************************************************)
\* the longest source text of the segmenter specification, in lines
MaxLines == 3
\* how many times the text prop of one RoboticReadout instance changes
MaxChanges == 2
\* the longest generated line of the line-rendering specification, in
\* characters
MaxLineLen == 4
\* how many times handleSend is started
MaxSends == 2
\* how many times startQuiz is started
MaxQuizzes == 1

\* how many times startQuiz is called in the specification of the quiz view
MaxQuizStarts == 2
\* the last millisecond the clock reaches
MaxTime == 4

(***************************************************************************)
(* Characters and strings.                                                 *)
(***************************************************************************)
\* the characters JavaScript's \s and String.prototype.trim treat as white
\* space, as far as the model's alphabet goes
WhiteSpace == {" ", "\t", "\r", "\n"}

\* the characters the regular expression '.' does not match
LineTerminators == {"\n", "\r"}

\* the character class [| \-:] of the separator test (App.tsx line 90)
SeparatorChars == {"|", " ", "-", ":"}

Min(a, b) == IF a < b THEN a ELSE b

\* String.prototype.trim
RECURSIVE TrimStart(_)
TrimStart(s) ==
    IF s # <<>> /\ Head(s) \in WhiteSpace THEN TrimStart(Tail(s)) ELSE s

RECURSIVE TrimEnd(_)
TrimEnd(s) ==
    IF s # <<>> /\ s[Len(s)] \in WhiteSpace
    THEN TrimEnd(SubSeq(s, 1, Len(s) - 1))
    ELSE s

Trim(s) == TrimEnd(TrimStart(s))

\* String.prototype.startsWith
StartsWith(s, p) == Len(p) <= Len(s) /\ SubSeq(s, 1, Len(p)) = p

\* String.prototype.includes
Includes(s, p) ==
    \E i \in 1..(Len(s) - Len(p) + 1) : SubSeq(s, i, i + Len(p) - 1) = p

\* String.prototype.split with a one-character separator: the fields
\* between the separators, empty fields kept; the empty string gives [""]
RECURSIVE SplitAcc(_, _, _, _)
SplitAcc(s, sep, cur, out) ==
    IF s = <<>> THEN Append(out, cur)
    ELSE IF Head(s) = sep THEN SplitAcc(Tail(s), sep, <<>>, Append(out, cur))
    ELSE SplitAcc(Tail(s), sep, Append(cur, Head(s)), out)

Split(s, sep) == SplitAcc(s, sep, <<>>, <<>>)

\* Array.prototype.join with a one-character separator
RECURSIVE Join(_, _)
Join(parts, sep) ==
    IF parts = <<>> THEN <<>>
    ELSE IF Len(parts) = 1 THEN parts[1]
    ELSE parts[1] \o <<sep>> \o Join(Tail(parts), sep)

(***************************************************************************)
(* Block segmenter (first effect of RoboticReadout, App.tsx lines 82-105). *)
(***************************************************************************)
\* /^[\s]*\|.*\|[\s]*$/.test(line): white space, a pipe, any characters but
\* line terminators, a pipe, white space
MatchesRowShape(line) ==
    \E i, j \in 1..Len(line) :
        /\ i < j
        /\ line[i] = "|"
        /\ line[j] = "|"
        /\ \A k \in 1..(i - 1) : line[k] \in WhiteSpace
        /\ \A k \in (i + 1)..(j - 1) : line[k] \notin LineTerminators
        /\ \A k \in (j + 1)..Len(line) : line[k] \in WhiteSpace

\* const isTableRow = /^[\s]*\|.*\|[\s]*$/.test(line) && line.includes('|')
IsTableRow(line) == MatchesRowShape(line) /\ Includes(line, <<"|">>)

\* line.trim().match(/^[| \-:]+$/)
IsSeparatorRow(line) ==
    LET t == Trim(line)
    IN  t # <<>> /\ \A k \in 1..Len(t) : t[k] \in SeparatorChars

\* Cells without the .map(c => c.trim())
CellsUntrimmed(line) ==
    LET arr == Split(line, "|")
    IN  [i \in 1..(IF Len(arr) > 2 THEN Len(arr) - 2 ELSE 0) |-> arr[i + 1]]

\* line.split('|').filter((_, i, arr) => i > 0 && i < arr.length - 1)
\*     .map(c => c.trim())
Cells(line) ==
    LET arr == Split(line, "|")
    IN  [i \in 1..(IF Len(arr) > 2 THEN Len(arr) - 2 ELSE 0) |-> Trim(arr[i + 1])]

\* the two variants of a content block
TextBlock(line) == [type |-> "text", content |-> line, table |-> <<>>]

TableBlock(rows) == [type |-> "table", content |-> <<>>, table |-> rows]

\* FlushTable without the test of currentTable.length
FlushTableAlways(acc) ==
    [blocks |-> Append(acc.blocks, TableBlock(acc.currentTable)),
     currentTable |-> <<>>]

\* blocks.push({ type: 'table', content: currentTable }); currentTable = []
\* when the accumulator holds a row
FlushTable(acc) ==
    IF acc.currentTable # <<>>
    THEN [blocks |-> Append(acc.blocks, TableBlock(acc.currentTable)),
          currentTable |-> <<>>]
    ELSE acc

\* SegmentLine with a separator row closing the table being accumulated
SegmentLineSeparatorFlushes(acc, line) ==
    IF IsTableRow(line)
    THEN IF IsSeparatorRow(line) THEN FlushTable(acc)
         ELSE IF Cells(line) # <<>>
              THEN [acc EXCEPT !.currentTable = Append(@, Cells(line))]
              ELSE acc
    ELSE LET flushed == FlushTable(acc)
         IN  IF Trim(line) # <<>>
             THEN [flushed EXCEPT !.blocks = Append(@, TextBlock(line))]
             ELSE flushed

\* SegmentLine with the text block pushed before the table is flushed
SegmentLineTextFirst(acc, line) ==
    IF IsTableRow(line)
    THEN IF IsSeparatorRow(line) THEN acc
         ELSE IF Cells(line) # <<>>
              THEN [acc EXCEPT !.currentTable = Append(@, Cells(line))]
              ELSE acc
    ELSE FlushTable(IF Trim(line) # <<>>
                    THEN [acc EXCEPT !.blocks = Append(@, TextBlock(line))]
                    ELSE acc)

\* SegmentLine with the trimmed line as the content of the text block
SegmentLineTrimsText(acc, line) ==
    IF IsTableRow(line)
    THEN IF IsSeparatorRow(line) THEN acc
         ELSE IF Cells(line) # <<>>
              THEN [acc EXCEPT !.currentTable = Append(@, Cells(line))]
              ELSE acc
    ELSE LET flushed == FlushTable(acc)
         IN  IF Trim(line) # <<>>
             THEN [flushed EXCEPT !.blocks = Append(@, TextBlock(Trim(line)))]
             ELSE flushed

\* one call of the lines.forEach callback
SegmentLine(acc, line) ==
    IF IsTableRow(line)
    THEN IF IsSeparatorRow(line) THEN acc
         ELSE IF Cells(line) # <<>>
              THEN [acc EXCEPT !.currentTable = Append(@, Cells(line))]
              ELSE acc
    ELSE LET flushed == FlushTable(acc)
         IN  IF Trim(line) # <<>>
             THEN [flushed EXCEPT !.blocks = Append(@, TextBlock(line))]
             ELSE flushed

\* the state of the loop before the first line
EmptyAcc == [blocks |-> <<>>, currentTable |-> <<>>]

RECURSIVE SegmentLines(_, _)
SegmentLines(acc, lines) ==
    IF lines = <<>> THEN acc
    ELSE SegmentLines(SegmentLine(acc, Head(lines)), Tail(lines))

\* the blocks the first effect hands to setContentBlocks
Segment(text) == FlushTable(SegmentLines(EmptyAcc, Split(text, "\n"))).blocks

(***************************************************************************)
(* Block stylist (App.tsx lines 165-172).                                  *)
(***************************************************************************)
FinalAnswerMarker == <<"F","I","N","A","L"," ","A","N","S","W","E","R",":">>

GivenMarker == <<"G","I","V","E","N",":">>

StepsMarker == <<"S","T","E","P","S",":">>

PartPrefix == <<"P","a","r","t">>

isAnswer(line) == Includes(line, FinalAnswerMarker)

isHeader(line) ==
    \/ Includes(line, GivenMarker)
    \/ Includes(line, StepsMarker)
    \/ StartsWith(line, PartPrefix)

\* the style the className expression picks: isAnswer ? ... : isHeader ? ...
Classify(line) ==
    IF isAnswer(line) THEN "answer"
    ELSE IF isHeader(line) THEN "header"
    ELSE "plain"

\* how a visible block is rendered: a table block as a grid, a text block in
\* the style of its line
BlockStyle(block) ==
    IF block.type = "table" THEN "table" ELSE Classify(block.content)

\* {isHeader && <div .../>}: the pulsing dot rendered before the line
HeaderDot(line) == isHeader(line)

(***************************************************************************)
(* Math fragment renderer (renderTextWithMath, App.tsx lines 115-130).     *)
(***************************************************************************)
\* the match of /\$.*?\$/ at the head of s, which starts with a dollar sign:
\* the position of the next dollar sign when no line terminator lies before
\* it, and 0 when there is no match at this position
ClosingDollar(s) ==
    LET next == {q \in 2..Len(s) : s[q] = "$"}
    IN  IF next = {} THEN 0
        ELSE LET q == CHOOSE q \in next : \A r \in next : q <= r
             IN  IF \A k \in 2..(q - 1) : s[k] \notin LineTerminators
                 THEN q ELSE 0

\* line.split(/(\$.*?\$)/g): the spans between the matches and, the pattern
\* being a capture group, the matches themselves, in order; cur is the span
\* before the next match
RECURSIVE SplitMathAcc(_, _, _)
SplitMathAcc(s, cur, out) ==
    IF s = <<>> THEN Append(out, cur)
    ELSE IF Head(s) = "$" /\ ClosingDollar(s) # 0
         THEN SplitMathAcc(SubSeq(s, ClosingDollar(s) + 1, Len(s)), <<>>,
                           out \o <<cur, SubSeq(s, 1, ClosingDollar(s))>>)
         ELSE SplitMathAcc(Tail(s), Append(cur, Head(s)), out)

SplitMath(line) == SplitMathAcc(line, <<>>, <<>>)

\* part.startsWith('$') && part.endsWith('$')
IsMathPart(part) ==
    StartsWith(part, <<"$">>) /\ part[Len(part)] = "$"

\* MathSource without the slice
MathSourceUnsliced(part) == part

\* part.slice(1, -1)
MathSource(part) == SubSeq(part, 2, Len(part) - 1)

\* what katex.renderToString does with a source: it returns markup or it
\* throws
TypesetOutcomes == {"html", "throws"}

\* RenderPart without the try / catch around the typesetting call
RenderPartNoCatch(part, outcome) ==
    IF IsMathPart(part)
    THEN IF outcome = "html"
         THEN [kind |-> "math", text |-> MathSource(part)]
         ELSE [kind |-> "thrown", text |-> part]
    ELSE [kind |-> "plain", text |-> part]

\* the callback of parts.map: the typeset markup of a math part, the raw part
\* in the error colour when typesetting throws, the part itself otherwise
RenderPart(part, outcome) ==
    IF IsMathPart(part)
    THEN IF outcome = "html"
         THEN [kind |-> "math", text |-> MathSource(part)]
         ELSE [kind |-> "raw", text |-> part]
    ELSE [kind |-> "plain", text |-> part]

(***************************************************************************)
(* The generative service as the handlers see it (geminiService:           *)
(* src/unnamed/part_000 lines 104-361).  A string that is undefined or     *)
(* empty in the program is "" here: both are falsy.                        *)
(***************************************************************************)
\* the value of diagramUrl: undefined, or the data URI the diagram call of
\* send i returned
NoUrl == <<>>

Url(i) == <<i>>

\* a MathResult
Result(content, topic, diagramPrompt, error, message) ==
    [content |-> content, topic |-> topic, diagramPrompt |-> diagramPrompt,
     error |-> error, message |-> message]

\* tryLocalScientificEvaluation: the result of a query that is an arithmetic
\* expression, of which "2+2" is the sample, and null (no content) otherwise
tryLocalScientificEvaluation(query) ==
    IF query = "2+2"
    THEN Result("Immediate computation", "Quick Compute", "", "", "")
    ELSE Result("", "", "", "", "")

\* what ai.models.generateContent does with a solve request: it resolves
\* with a text (here by its parts: the "Topic: ...\n" line, the
\* "[DIAGRAM_PROMPT: ...]" tag and what is left when both are removed), or
\* with no text, or it rejects with an error (here by the text of the error)
SolveResponses ==
    { [kind |-> "text", topic |-> "Algebra", prompt |-> "", body |-> "steps"],
      [kind |-> "text", topic |-> "none", prompt |-> "a circle",
       body |-> "steps"],
      [kind |-> "text", topic |-> "", prompt |-> "", body |-> ""],
      [kind |-> "empty", topic |-> "", prompt |-> "", body |-> ""],
      [kind |-> "error", topic |-> "", prompt |-> "", body |-> "fetch"] }

\* the catch of solveMathProblem: the error type by the text of the error
ErrorType(errStr) ==
    IF errStr \in {"fetch", "network"} THEN "NETWORK_ERROR"
    ELSE IF errStr \in {"api_key", "unauthorized"} THEN "AUTH_ERROR"
    ELSE IF errStr \in {"safety", "blocked"} THEN "SAFETY_BLOCK"
    ELSE IF errStr \in {"quota", "429"} THEN "RATE_LIMIT"
    ELSE "GENERAL_FAILURE"

\* the catch of solveMathProblem: the message for the user
RobotMessage(errorType) ==
    CASE errorType = "NETWORK_ERROR" -> "Uplink synchronization failure."
      [] errorType = "AUTH_ERROR" -> "Authorization denied."
      [] errorType = "SAFETY_BLOCK" -> "Protocol violation."
      [] errorType = "RATE_LIMIT" -> "Resource exhausted."
      [] OTHER -> "Computation error."

\* return { error: errorType, message: robotMessage }
ErrorResult(errStr) ==
    Result("", "", "", ErrorType(errStr), RobotMessage(ErrorType(errStr)))

\* solveMathProblem after the request has settled (lines 223-267): the text
\* parsed into content, topic and diagram prompt, and a missing text or a
\* rejection turned into an error result
SolveOutcome(response, image) ==
    IF response.kind = "text"
    THEN Result(response.body,
                IF response.topic # "none" THEN response.topic
                ELSE IF image THEN "Visual Analysis" ELSE "Computation",
                response.prompt, "", "")
    ELSE IF response.kind = "empty" THEN ErrorResult("EMPTY_RESPONSE")
    ELSE ErrorResult(response.body)

\* DiagramOutcomes with the catch of generateDiagram throwing the error again
DiagramOutcomesRethrow == {"url", "absent", "raise"}

\* what generateDiagram settles with once its request is made: a data URI, or
\* null when the response holds no image part or the request failed (the
\* catch returns null)
DiagramOutcomes == {"url", "absent"}

\* what ai.models.generateContent does with a quiz request: it rejects, or it
\* resolves with a text that is no JSON, with no text, or with the JSON of a
\* quiz
QuizResponses == {"rejects", "badJson", "noText", "quiz"}

\* the questions of the quiz the service returns: ten, by their numbers of
\* options
SampleQuestions == <<2, 1, 1, 1, 1, 1, 1, 1, 1, 1>>

\* the value of activeQuiz: null, the object {} or a quiz
NullQuiz == [kind |-> "null", topic |-> "", questions |-> <<>>]

EmptyObject == [kind |-> "object", topic |-> "", questions |-> <<>>]

QuizOf(topic) == [kind |-> "quiz", topic |-> topic, questions |-> SampleQuestions]

\* generateQuiz with a catch that returns the parse of "{}" in place of
\* throwing the error again
generateQuizSwallows(response, topic) ==
    IF response \in {"rejects", "badJson", "noText"}
    THEN [kind |-> "value", quiz |-> EmptyObject]
    ELSE [kind |-> "value", quiz |-> QuizOf(topic)]

\* generateQuiz after the request has settled (lines 356-360):
\* JSON.parse(response.text || "{}"), and the catch throws the error again
generateQuiz(response, topic) ==
    IF response \in {"rejects", "badJson"}
    THEN [kind |-> "raise", quiz |-> NullQuiz]
    ELSE IF response = "noText"
         THEN [kind |-> "value", quiz |-> EmptyObject]
         ELSE [kind |-> "value", quiz |-> QuizOf(topic)]

(***************************************************************************)
(* Inputs of the model.                                                    *)
(***************************************************************************)
\* the scenario text of the specification, section 8
ScenarioText ==
    <<"G","I","V","E","N",":","\n","x","=","5","\n","|"," ","a"," ","|"," ","b"," ","|","\n","|","-","-","-","|","-","-","-","|","\n","|"," ","1"," ","|"," ","2"," ","|","\n","F","I","N","A","L"," ","A","N","S","W","E","R",":"," ","7">>

\* the texts a RoboticReadout instance is given: no block, one block, a
\* table followed by a line, and the scenario (four blocks)
ReadoutTexts ==
    { <<>>,
      <<"a">>,
      <<"|","a","|","\n","|","-","|","\n","b">>,
      ScenarioText }

\* the lines the segmenter specification builds its source texts from: blank
\* lines, plain lines, data rows, separator rows and near misses of both
LineSamples ==
    { <<>>,
      <<" ">>,
      <<"a">>,
      <<" ","a">>,
      <<"|">>,
      <<"|","a">>,
      <<"a","|","b">>,
      <<"|","a","|">>,
      <<" ","|"," ","a"," ","|","b","|","\r">>,
      <<"|","b","|","|">>,
      <<"|","|">>,
      <<"|","-","|">>,
      <<"|"," ",":","-"," ","|"," ">>,
      <<"|","\t","-","|">> }

\* the sequences of at most n elements of S
RECURSIVE SeqsUpTo(_, _)
SeqsUpTo(S, n) ==
    IF n = 0 THEN {<<>>}
    ELSE LET shorter == SeqsUpTo(S, n - 1)
         IN  shorter \cup {Append(q, x) : q \in shorter, x \in S}

\* the source texts of the segmenter specification
SegmenterTexts == {Join(ls, "\n") : ls \in SeqsUpTo(LineSamples, MaxLines)}

\* the lines the stylist is shown: the examples of the specification, lines
\* that pass the answer test and a header test, near misses of the markers,
\* and two lines with math
StyleLines ==
    { <<"F","I","N","A","L"," ","A","N","S","W","E","R",":"," ","4","2">>,
      <<"S","T","E","P","S",":">>,
      <<"P","a","r","t"," ","A">>,
      <<"T","h","e"," ","r","e","s","u","l","t"," ","i","s"," ","5">>,
      <<"G","I","V","E","N",":">>,
      <<"P","a","r","t"," ","A"," ","F","I","N","A","L"," ","A","N","S","W","E","R",":"," ","3">>,
      <<"G","I","V","E","N",":"," ","F","I","N","A","L"," ","A","N","S","W","E","R",":"," ","1">>,
      <<" ","P","a","r","t">>,
      <<"p","a","r","t"," ","a">>,
      <<"F","I","N","A","L"," ","A","N","S","W","E","R">>,
      <<"$","x","^","2","$">>,
      <<"a"," ","$","x","$"," ","b">> }

\* the characters the generated lines are made of: a dollar sign, a letter
\* and a line terminator that is white space
MathAlphabet == {"$", "x", "\r"}

\* the strings the line-rendering specification renders
RenderLines == SeqsUpTo(MathAlphabet, MaxLineLen) \cup StyleLines

\* the lines a Text block can hold: not blank, and no table row
TextLines == {l \in RenderLines : Trim(l) # <<>> /\ ~IsTableRow(l)}

\* the strings a table cell can hold: trimmed, without a pipe
CellTexts == {l \in RenderLines : Trim(l) = l /\ ~Includes(l, <<"|">>)}

(***************************************************************************)
(* State.                                                                  *)
(***************************************************************************)
VARIABLES
    \* one RoboticReadout instance
    text,               \* the text prop of the last render
    contentBlocks,      \* useState: the committed block sequence
    visibleBlockCount,  \* useState: the committed count of visible blocks
    mounted,            \* whether the instance is mounted
    pendingEffects,     \* the passive effects the last commit scheduled
    queuedBlocks,       \* the pending setContentBlocks update, if any
    queuedCount,        \* the pending setVisibleBlockCount updates, in order
    timers,             \* the handles of the pending setTimeout timers
    cleanupTimer,       \* the handle the reveal effect's cleanup holds, or 0
    \* history of the instance
    changes,            \* how many times the text prop has changed
    ticks,              \* timer callbacks run since the last text change
    staleTimers,        \* pending timers set before the last change or unmount
    \* one run of the segmentation loop
    srcText,            \* the text the loop segments
    lines,              \* text.split('\n')
    lineIdx,            \* the line the forEach callback handles next
    acc,                \* the loop's blocks and currentTable
    segPc,              \* "loop", then "done" once blocks is final
    \* the render of one Text block or of one table cell
    rKind,              \* "text" for a Text block's line, "cell" for a cell
    rLine,              \* the line or the cell's text
    rStyle,             \* the style the className expression picked
    rDot,               \* whether the header's dot is rendered
    rParts,             \* parts: the result of line.split
    rIdx,               \* the part the map callback handles next
    rFrags,             \* the fragments the map callback has returned
    rThrown,            \* the parts whose typesetting call threw
    rPc,                \* "style", "split", "map", then "done", "null" or
                        \* "raised"
    \* the App component
    apiKeyOk,           \* whether new GoogleGenAI({ apiKey }) returns
    now,                \* Date.now()
    messages,           \* useState: the chat
    inputValue,         \* useState: the text of the input
    selectedImage,      \* useState: whether an image is attached
    isThinking,         \* useState
    viewMode,           \* useState: "chat", "quizzes", "stats" or "saved"
    savedProblems,      \* useState: the solved problems, newest first
    userStats,          \* useState: problemsSolved and topicMastery
    activeQuiz,         \* useState: null, or what generateQuiz returned
    currentQuestionIndex, \* useState
    quizAnswers,        \* useState: per question <<>> (null) or <<option>>
    quizCategory,       \* useState: "" (null) or the category picked
    selectedTopic,      \* useState: "" (null) or the topic of startQuiz
    isQuizComplete,     \* useState
    alerts,             \* how many times alert() was called
    crashed,            \* whether a render of App has thrown
    \* the calls in flight
    sends,              \* the calls of handleSend, in the order of start
    quizCalls,          \* the calls of startQuiz, in the order of start
    \* one call of solveMathProblem that reaches the request
    tHistory,           \* history: the messages, the new user message last
    tQuery,             \* query
    tImage,             \* whether an image is passed
    contents,           \* contents: the turns built so far
    tIdx,               \* the message of history.slice(-4) handled next
    tPc                 \* "loop", then "sent" once contents is final

readoutVars ==
    <<text, contentBlocks, visibleBlockCount, mounted, pendingEffects,
      queuedBlocks, queuedCount, timers, cleanupTimer, changes, ticks,
      staleTimers>>

segVars == <<srcText, lines, lineIdx, acc, segPc>>

lineVars == <<rKind, rLine, rStyle, rDot, rParts, rIdx, rFrags, rThrown, rPc>>

\* the App component and the calls of the service in flight
appVars ==
    <<apiKeyOk, now, messages, inputValue, selectedImage, isThinking,
      viewMode, savedProblems, userStats, activeQuiz, currentQuestionIndex,
      quizAnswers, quizCategory, selectedTopic, isQuizComplete, alerts,
      crashed, sends, quizCalls>>

turnVars == <<tHistory, tQuery, tImage, contents, tIdx, tPc>>

vars == <<readoutVars, segVars, lineVars, appVars, turnVars>>

\* the topics a solved problem can carry
Topics == {"Quick Compute", "Algebra", "Computation", "Visual Analysis"}

\* the message the messages state starts with (App.tsx lines 192-198)
WelcomeMessage ==
    [id |-> 1, role |-> "assistant", content |-> "hi there!", topic |-> "",
     isGeneratingDiagram |-> FALSE, isError |-> FALSE, diagramUrl |-> NoUrl,
     imageUrl |-> FALSE]

\* the useState initial values of App (lines 191-222), once the boot screen
\* is over; the clock shows a time after 1, the id of the first message
AppState ==
    /\ now = 2
    /\ messages = <<WelcomeMessage>>
    /\ inputValue = ""
    /\ selectedImage = FALSE
    /\ isThinking = FALSE
    /\ viewMode = "chat"
    /\ savedProblems = <<>>
    /\ userStats = [problemsSolved |-> 0, topicMastery |-> [t \in Topics |-> 0]]
    /\ activeQuiz = NullQuiz
    /\ currentQuestionIndex = 0
    /\ quizAnswers = <<>>
    /\ quizCategory = ""
    /\ selectedTopic = ""
    /\ isQuizComplete = FALSE
    /\ alerts = 0
    /\ crashed = FALSE
    /\ sends = <<>>
    /\ quizCalls = <<>>

\* the App component is idle in the other specifications
AppIdle == apiKeyOk = TRUE /\ AppState

\* no call of solveMathProblem is looked at in the other specifications
TurnIdle ==
    /\ tHistory = <<>>
    /\ tQuery = ""
    /\ tImage = FALSE
    /\ contents = <<>>
    /\ tIdx = 1
    /\ tPc = "idle"

\* the render of a line is idle in the other specifications
LineIdle ==
    /\ rKind = "cell"
    /\ rLine = <<>>
    /\ rStyle = "none"
    /\ rDot = FALSE
    /\ rParts = <<>>
    /\ rIdx = 1
    /\ rFrags = <<>>
    /\ rThrown = {}
    /\ rPc = "idle"

(***************************************************************************)
(* Progressive revealer (RoboticReadout, App.tsx lines 78-113) on React's  *)
(* schedule.  The component is a function of its prop and of two useState  *)
(* cells; what runs when is React's:                                       *)
(*  - a render commits the prop and the queued state updates, and          *)
(*    schedules the effects whose dependencies differ from the last        *)
(*    commit's (TextChange, Render);                                       *)
(*  - the scheduled effects run in a later task, every cleanup first, then *)
(*    the effects in the order of the source, and the state updates they   *)
(*    make are queued for the next render (FlushEffects); React runs the   *)
(*    scheduled effects before it renders again;                           *)
(*  - the cleanup of an unmounted instance's effect runs in a later task   *)
(*    too (Unmount, UnmountCleanup);                                       *)
(*  - a pending timer is a task of the event loop: it may run between any  *)
(*    two of these steps (TimerFire).                                      *)
(***************************************************************************)
\* the queued updates of visibleBlockCount, applied in order to v:
\* setVisibleBlockCount(0) and setVisibleBlockCount(v => v + 1)
RECURSIVE ApplyCount(_, _)
ApplyCount(v, q) ==
    IF q = <<>> THEN v
    ELSE ApplyCount(IF Head(q) = "reset" THEN 0 ELSE v + 1, Tail(q))

\* the state a render commits: the queued updates applied
RenderedBlocks == IF queuedBlocks # <<>> THEN queuedBlocks[1] ELSE contentBlocks

RenderedCount == ApplyCount(visibleBlockCount, queuedCount)

\* RevealDepsChanged with contentBlocks as the only dependency
RevealDepsBlocksOnly == queuedBlocks # <<>>

\* the dependencies [visibleBlockCount, contentBlocks] of the reveal effect
\* differ from the last commit's (a set array is always a new array)
RevealDepsChanged == queuedBlocks # <<>> \/ RenderedCount # visibleBlockCount

\* RevealsMore with <= for <
RevealsMoreOffByOne(count, blocks) == count <= Len(blocks)

\* if (visibleBlockCount < contentBlocks.length): the reveal effect sets a
\* timer
RevealsMore(count, blocks) == count < Len(blocks)

\* the handle setTimeout returns: one no pending timer or cleanup holds
FreshHandle(used) == CHOOSE h \in 1..(Cardinality(used) + 1) : h \notin used

\* contentBlocks.slice(0, visibleBlockCount): the blocks on screen
VisibleBlocks ==
    SubSeq(contentBlocks, 1, Min(visibleBlockCount, Len(contentBlocks)))

\* the state after construction: the first render is committed, with its
\* useState initial values, and both effects are scheduled
ReadoutInit ==
    /\ text \in ReadoutTexts
    /\ contentBlocks = <<>>
    /\ visibleBlockCount = 0
    /\ mounted = TRUE
    /\ pendingEffects = {"segment", "reveal"}
    /\ queuedBlocks = <<>>
    /\ queuedCount = <<>>
    /\ timers = {}
    /\ cleanupTimer = 0
    /\ changes = 0
    /\ ticks = 0
    /\ staleTimers = {}

\* the scheduled effects run: the reveal effect's cleanup (clearTimeout),
\* then the segmentation effect, then the reveal effect
FlushEffects ==
    /\ mounted
    /\ pendingEffects # {}
    /\ LET cleared == IF "reveal" \in pendingEffects
                      THEN timers \ {cleanupTimer} ELSE timers
           arm == "reveal" \in pendingEffects
                    /\ RevealsMore(visibleBlockCount, contentBlocks)
           handle == FreshHandle(cleared \cup {cleanupTimer})
       IN  /\ timers' = IF arm THEN cleared \cup {handle} ELSE cleared
           /\ cleanupTimer' = IF "reveal" \notin pendingEffects THEN cleanupTimer
                              ELSE IF arm THEN handle ELSE 0
           /\ staleTimers' = staleTimers \cap cleared
    /\ IF "segment" \in pendingEffects
       THEN /\ queuedBlocks' = <<Segment(text)>>
            /\ queuedCount' = Append(queuedCount, "reset")
       ELSE UNCHANGED <<queuedBlocks, queuedCount>>
    /\ pendingEffects' = {}
    /\ UNCHANGED <<text, contentBlocks, visibleBlockCount, mounted, changes,
                   ticks, segVars, lineVars, appVars, turnVars>>

\* a pending timer runs its callback, setVisibleBlockCount(v => v + 1); the
\* update of an unmounted instance is dropped
TimerFire(h) ==
    /\ h \in timers
    /\ timers' = timers \ {h}
    /\ staleTimers' = staleTimers \ {h}
    /\ queuedCount' = IF mounted THEN Append(queuedCount, "inc") ELSE queuedCount
    /\ ticks' = ticks + 1
    /\ UNCHANGED <<text, contentBlocks, visibleBlockCount, mounted,
                   pendingEffects, queuedBlocks, cleanupTimer, changes, segVars, lineVars, appVars, turnVars>>

\* a render caused by queued state updates is committed
Render ==
    /\ mounted
    /\ pendingEffects = {}
    /\ queuedBlocks # <<>> \/ queuedCount # <<>>
    /\ contentBlocks' = RenderedBlocks
    /\ visibleBlockCount' = RenderedCount
    /\ pendingEffects' = IF RevealDepsChanged THEN {"reveal"} ELSE {}
    /\ queuedBlocks' = <<>>
    /\ queuedCount' = <<>>
    /\ UNCHANGED <<text, mounted, timers, cleanupTimer, changes, ticks,
                   staleTimers, segVars, lineVars, appVars, turnVars>>

\* the parent renders the instance with another text; queued state updates
\* are committed by the same render
TextChange(t) ==
    /\ mounted
    /\ pendingEffects = {}
    /\ changes < MaxChanges
    /\ t # text
    /\ text' = t
    /\ contentBlocks' = RenderedBlocks
    /\ visibleBlockCount' = RenderedCount
    /\ pendingEffects' =
           {"segment"} \cup (IF RevealDepsChanged THEN {"reveal"} ELSE {})
    /\ queuedBlocks' = <<>>
    /\ queuedCount' = <<>>
    /\ changes' = changes + 1
    /\ ticks' = 0
    /\ staleTimers' = timers
    /\ UNCHANGED <<mounted, timers, cleanupTimer, segVars, lineVars, appVars, turnVars>>

\* the instance is removed; the cleanup of its reveal effect is scheduled
Unmount ==
    /\ mounted
    /\ pendingEffects = {}
    /\ mounted' = FALSE
    /\ pendingEffects' = {"unmount"}
    /\ queuedBlocks' = <<>>
    /\ queuedCount' = <<>>
    /\ staleTimers' = timers
    /\ UNCHANGED <<text, contentBlocks, visibleBlockCount, timers,
                   cleanupTimer, changes, ticks, segVars, lineVars, appVars, turnVars>>

\* the cleanup of the removed instance's reveal effect runs: clearTimeout
UnmountCleanup ==
    /\ ~mounted
    /\ pendingEffects = {"unmount"}
    /\ timers' = timers \ {cleanupTimer}
    /\ staleTimers' = staleTimers \ {cleanupTimer}
    /\ cleanupTimer' = 0
    /\ pendingEffects' = {}
    /\ UNCHANGED <<text, contentBlocks, visibleBlockCount, mounted,
                   queuedBlocks, queuedCount, changes, ticks, segVars, lineVars, appVars, turnVars>>

\* the segmentation loop is idle in the specification of the instance
SegIdle ==
    /\ srcText = <<>>
    /\ lines = <<>>
    /\ lineIdx = 1
    /\ acc = EmptyAcc
    /\ segPc = "done"

Init == ReadoutInit /\ SegIdle /\ LineIdle /\ AppIdle /\ TurnIdle

Next ==
    \/ FlushEffects
    \/ \E h \in timers : TimerFire(h)
    \/ Render
    \/ \E t \in ReadoutTexts : TextChange(t)
    \/ Unmount
    \/ UnmountCleanup

Spec == Init /\ [][Next]_vars

(***************************************************************************)
(* The segmentation loop, line by line (App.tsx lines 83-103).             *)
(***************************************************************************)
\* the instance is idle in the specification of the segmenter
ReadoutIdle ==
    /\ text = <<>>
    /\ contentBlocks = <<>>
    /\ visibleBlockCount = 0
    /\ mounted = FALSE
    /\ pendingEffects = {}
    /\ queuedBlocks = <<>>
    /\ queuedCount = <<>>
    /\ timers = {}
    /\ cleanupTimer = 0
    /\ changes = 0
    /\ ticks = 0
    /\ staleTimers = {}

\* const lines = text.split('\n'); const blocks = []; let currentTable = []
SegInit ==
    /\ srcText \in SegmenterTexts
    /\ lines = Split(srcText, "\n")
    /\ lineIdx = 1
    /\ acc = EmptyAcc
    /\ segPc = "loop"
    /\ ReadoutIdle
    /\ LineIdle
    /\ AppIdle
    /\ TurnIdle

\* one call of the lines.forEach callback
SegLoopStep ==
    /\ segPc = "loop"
    /\ lineIdx <= Len(lines)
    /\ acc' = SegmentLine(acc, lines[lineIdx])
    /\ lineIdx' = lineIdx + 1
    /\ UNCHANGED <<srcText, lines, segPc, readoutVars, lineVars, appVars, turnVars>>

\* if (currentTable.length > 0) blocks.push(...), after the loop
SegFinish ==
    /\ segPc = "loop"
    /\ lineIdx > Len(lines)
    /\ acc' = FlushTable(acc)
    /\ segPc' = "done"
    /\ UNCHANGED <<srcText, lines, lineIdx, readoutVars, lineVars, appVars, turnVars>>

SegNext == SegLoopStep \/ SegFinish

SegSpec == SegInit /\ [][SegNext]_vars

(***************************************************************************)
(* The render of one Text block (App.tsx lines 165-177) or of one table    *)
(* cell (lines 144, 154): the style, then renderTextWithMath part by part. *)
(***************************************************************************)
LineInit ==
    /\ rKind \in {"text", "cell"}
    /\ rLine \in (IF rKind = "text" THEN TextLines ELSE CellTexts)
    /\ rStyle = "none"
    /\ rDot = FALSE
    /\ rParts = <<>>
    /\ rIdx = 1
    /\ rFrags = <<>>
    /\ rThrown = {}
    /\ rPc = IF rKind = "text" THEN "style" ELSE "split"
    /\ ReadoutIdle
    /\ SegIdle
    /\ AppIdle
    /\ TurnIdle

\* the className expression and the header's dot of a Text block
StyleBlock ==
    /\ rPc = "style"
    /\ rStyle' = Classify(rLine)
    /\ rDot' = HeaderDot(rLine)
    /\ rPc' = "split"
    /\ UNCHANGED <<rKind, rLine, rParts, rIdx, rFrags, rThrown, readoutVars, segVars, appVars, turnVars>>

\* if (!line) return null; const parts = line.split(/(\$.*?\$)/g)
MathSplit ==
    /\ rPc = "split"
    /\ IF rLine = <<>>
       THEN rPc' = "null" /\ UNCHANGED rParts
       ELSE rPc' = "map" /\ rParts' = SplitMath(rLine)
    /\ UNCHANGED <<rKind, rLine, rStyle, rDot, rIdx, rFrags, rThrown,
                   readoutVars, segVars, appVars, turnVars>>

\* one call of the parts.map callback; the typesetting call of a math part
\* returns markup or throws
MathMapPart ==
    /\ rPc = "map"
    /\ rIdx <= Len(rParts)
    /\ \E outcome \in TypesetOutcomes :
          LET frag == RenderPart(rParts[rIdx], outcome)
          IN  /\ rThrown' = IF IsMathPart(rParts[rIdx]) /\ outcome = "throws"
                            THEN rThrown \cup {rIdx} ELSE rThrown
              /\ IF frag.kind = "thrown"
                 THEN rPc' = "raised" /\ UNCHANGED <<rFrags, rIdx>>
                 ELSE /\ rFrags' = Append(rFrags, frag)
                      /\ rIdx' = rIdx + 1
                      /\ UNCHANGED rPc
    /\ UNCHANGED <<rKind, rLine, rStyle, rDot, rParts, readoutVars, segVars, appVars, turnVars>>

\* parts.map returns the fragments
MathFinish ==
    /\ rPc = "map"
    /\ rIdx > Len(rParts)
    /\ rPc' = "done"
    /\ UNCHANGED <<rKind, rLine, rStyle, rDot, rParts, rIdx, rFrags, rThrown,
                   readoutVars, segVars, appVars, turnVars>>

LineNext == StyleBlock \/ MathSplit \/ MathMapPart \/ MathFinish

LineSpec == LineInit /\ [][LineNext]_vars

(***************************************************************************)
(* The handlers of App that call the service (App.tsx lines 304-386) and   *)
(* the user's events they depend on.  An async handler runs from one await *)
(* to the next in one step; a state update is applied when it is made (the *)
(* updates of messages, savedProblems and userStats are functional).  A    *)
(* request to the service takes at least one millisecond of the clock.     *)
(***************************************************************************)
AppInit ==
    /\ apiKeyOk \in BOOLEAN
    /\ AppState
    /\ ReadoutIdle
    /\ SegIdle
    /\ LineIdle
    /\ TurnIdle

chatVars == <<messages, inputValue, selectedImage, savedProblems, userStats>>

quizVars ==
    <<activeQuiz, currentQuestionIndex, quizAnswers, quizCategory,
      selectedTopic, isQuizComplete, alerts, crashed>>

otherVars == <<readoutVars, segVars, lineVars, turnVars>>

\* the texts the user types: nothing, a blank, an arithmetic expression and a
\* question
InputTexts == {"", " ", "2+2", "q"}

\* TrimInput without the trim
InputUntrimmed(v) == v

\* inputValue.trim()
TrimInput(v) == IF v = " " THEN "" ELSE v

\* the categories and topics of the quiz view, one sample of each
QuizCategories == {"Pure Mathematics"}

QuizTopics == {"Number Theory (Modular Arithmetic)"}

ViewModes == {"chat", "quizzes", "stats", "saved"}

\* a || b || c on strings
FirstTruthy(a, b, c) == IF a # "" THEN a ELSE IF b # "" THEN b ELSE c

\* the user message of handleSend (lines 311-317)
UserMessage(input, image) ==
    [id |-> now, role |-> "user",
     content |-> FirstTruthy(input, "Please analyze this mathematical input.",
                             ""),
     topic |-> "", isGeneratingDiagram |-> FALSE, isError |-> FALSE,
     diagramUrl |-> NoUrl, imageUrl |-> image]

\* AssistantMessage without the isError flag of an error result
AssistantMessageNoErrorFlag(result) ==
    [id |-> now + 1, role |-> "assistant",
     content |-> FirstTruthy(result.content, result.message, "Logic failure."),
     topic |-> result.topic,
     isGeneratingDiagram |-> result.diagramPrompt # "",
     isError |-> FALSE,
     diagramUrl |-> NoUrl, imageUrl |-> FALSE]

\* the assistant message of handleSend (lines 326-334)
AssistantMessage(result) ==
    [id |-> now + 1, role |-> "assistant",
     content |-> FirstTruthy(result.content, result.message, "Logic failure."),
     topic |-> result.topic,
     isGeneratingDiagram |-> result.diagramPrompt # "",
     isError |-> result.error # "",
     diagramUrl |-> NoUrl, imageUrl |-> FALSE]

\* the message of the catch of handleSend (line 358)
ProtocolErrorMessage ==
    [id |-> now, role |-> "assistant", content |-> "Protocol error.",
     topic |-> "", isGeneratingDiagram |-> FALSE, isError |-> TRUE,
     diagramUrl |-> NoUrl, imageUrl |-> FALSE]

\* if (result.topic && !result.error)
SavesProblem(result) == result.topic # "" /\ result.error = ""

\* setSavedProblems and setUserStats of handleSend (lines 343-355), when the
\* result is one to save; the id is assistantMsg.id, which the
\* step has put in the record of the send
SaveProblem(i, result) ==
    IF SavesProblem(result)
    THEN /\ savedProblems' =
              <<[id |-> sends'[i].asstId, query |-> sends[i].query,
                 solution |-> FirstTruthy(result.content, result.message,
                                          "Logic failure."),
                 topic |-> result.topic]>> \o savedProblems
         /\ userStats' =
              [userStats EXCEPT
                 !.problemsSolved = @ + 1,
                 !.topicMastery[result.topic] = Min(100, @ + 5)]
    ELSE UNCHANGED <<savedProblems, userStats>>

\* the user types in the input (onChange, line 686)
TypeInput(v) ==
    /\ ~crashed
    /\ viewMode = "chat"
    /\ v # inputValue
    /\ inputValue' = v
    /\ UNCHANGED <<apiKeyOk, now, messages, selectedImage, savedProblems,
                   userStats, isThinking, viewMode, quizVars, sends,
                   quizCalls, otherVars>>

\* the user attaches an image (handleImageChange) or removes it (line 664)
ToggleImage ==
    /\ ~crashed
    /\ viewMode = "chat"
    /\ selectedImage' = ~selectedImage
    /\ UNCHANGED <<apiKeyOk, now, messages, inputValue, savedProblems,
                   userStats, isThinking, viewMode, quizVars, sends,
                   quizCalls, otherVars>>

\* a button of the sidebar (lines 456-459)
SetViewMode(v) ==
    /\ ~crashed
    /\ v # viewMode
    /\ viewMode' = v
    /\ UNCHANGED <<apiKeyOk, now, chatVars, isThinking, quizVars, sends,
                   quizCalls, otherVars>>

\* handleSend up to its await (lines 304-325), solveMathProblem up to its
\* own await included (lines 179-221): the local evaluation, the constructor
\* of the client, the request
HandleSend ==
    /\ ~crashed
    /\ viewMode = "chat"
    /\ ~((TrimInput(inputValue) = "" /\ ~selectedImage) \/ isThinking)
    /\ Len(sends) < MaxSends
    /\ LET userMsg == UserMessage(inputValue, selectedImage)
           local == IF selectedImage THEN Result("", "", "", "", "")
                    ELSE tryLocalScientificEvaluation(userMsg.content)
       IN  /\ messages' = Append(messages, userMsg)
           /\ sends' = Append(sends,
                  [pc |-> "solve",
                   call |-> IF local.content # "" THEN "local"
                            ELSE IF apiKeyOk THEN "request" ELSE "threw",
                   at |-> now,
                   query |-> inputValue,
                   content |-> userMsg.content,
                   image |-> selectedImage,
                   userId |-> userMsg.id,
                   userPos |-> Len(messages) + 1,
                   asstId |-> 0,
                   asstPos |-> 0,
                   result |-> Result("", "", "", "", ""),
                   solved |-> "pending",
                   diagram |-> "none"])
    /\ inputValue' = ""
    /\ selectedImage' = FALSE
    /\ isThinking' = TRUE
    /\ UNCHANGED <<apiKeyOk, now, savedProblems, userStats, viewMode,
                   quizVars, quizCalls, otherVars>>

\* the catch and the finally of handleSend (lines 357-361) of send i, after
\* the messages msgs
CatchSend(i, msgs, how) ==
    /\ messages' = Append(msgs, ProtocolErrorMessage)
    /\ isThinking' = FALSE
    /\ sends' = [sends EXCEPT ![i].pc = "done", ![i].solved = how[1],
                              ![i].diagram = how[2]]
    /\ UNCHANGED <<savedProblems, userStats>>

\* the await of solveMathProblem settles and handleSend runs on (lines
\* 325-361) to its end or to the await of generateDiagram, generateDiagram up
\* to its own await included (lines 271-273)
SolveSettles(i) ==
    /\ ~crashed
    /\ i \in DOMAIN sends
    /\ sends[i].pc = "solve"
    /\ sends[i].call = "request" => now > sends[i].at
    /\ \E response \in SolveResponses :
          LET s == sends[i]
              result == IF s.call = "local"
                        THEN tryLocalScientificEvaluation(s.content)
                        ELSE SolveOutcome(response, s.image)
              assistantMsg == AssistantMessage(result)
              how == IF result.error # "" THEN "error" ELSE "ok"
          IN  IF s.call = "threw"
              THEN CatchSend(i, messages, <<"rejected", "none">>)
              ELSE IF result.diagramPrompt # ""
                   THEN IF apiKeyOk
                        THEN /\ messages' = Append(messages, assistantMsg)
                             /\ sends' =
                                  [sends EXCEPT
                                     ![i].pc = "diagram",
                                     ![i].at = now,
                                     ![i].asstId = assistantMsg.id,
                                     ![i].asstPos = Len(messages) + 1,
                                     ![i].result = result,
                                     ![i].solved = how,
                                     ![i].diagram = "pending"]
                             /\ UNCHANGED <<isThinking, savedProblems,
                                            userStats>>
                        ELSE CatchSend(i, Append(messages, assistantMsg),
                                       <<how, "raise">>)
                   ELSE /\ messages' = Append(messages, assistantMsg)
                        /\ sends' =
                             [sends EXCEPT
                                ![i].pc = "done",
                                ![i].asstId = assistantMsg.id,
                                ![i].asstPos = Len(messages) + 1,
                                ![i].result = result,
                                ![i].solved = how]
                        /\ SaveProblem(i, result) 
                        /\ isThinking' = FALSE
    /\ UNCHANGED <<apiKeyOk, now, inputValue, selectedImage, viewMode,
                   quizVars, quizCalls, otherVars>>

\* the await of generateDiagram settles and handleSend runs on to its end
\* (lines 338-361)
DiagramSettles(i) ==
    /\ ~crashed
    /\ i \in DOMAIN sends
    /\ sends[i].pc = "diagram"
    /\ now > sends[i].at
    /\ \E outcome \in DiagramOutcomes :
          IF outcome = "raise"
          THEN CatchSend(i, messages, <<sends[i].solved, "raise">>)
          ELSE /\ messages' =
                    [k \in DOMAIN messages |->
                        IF messages[k].id = sends[i].asstId
                        THEN [messages[k] EXCEPT
                                !.diagramUrl = IF outcome = "url"
                                               THEN Url(i) ELSE NoUrl,
                                !.isGeneratingDiagram = FALSE]
                        ELSE messages[k]]
               /\ sends' = [sends EXCEPT ![i].pc = "done",
                                         ![i].diagram = outcome]
               /\ SaveProblem(i, sends[i].result)
               /\ isThinking' = FALSE
    /\ UNCHANGED <<apiKeyOk, now, inputValue, selectedImage, viewMode,
                   quizVars, quizCalls, otherVars>>

\* the user picks a category of the quiz view (line 547)
PickCategory(c) ==
    /\ ~crashed
    /\ viewMode = "quizzes"
    /\ activeQuiz.kind = "null"
    /\ quizCategory = ""
    /\ quizCategory' = c
    /\ UNCHANGED <<apiKeyOk, now, chatVars, isThinking, viewMode, activeQuiz,
                   currentQuestionIndex, quizAnswers, selectedTopic,
                   isQuizComplete, alerts, crashed, sends, quizCalls,
                   otherVars>>

\* startQuiz up to its await (lines 371-376), generateQuiz up to its own
\* await included (lines 300-324)
StartQuiz(topic) ==
    /\ ~crashed
    /\ viewMode = "quizzes"
    /\ activeQuiz.kind = "null"
    /\ quizCategory # ""
    /\ isThinking' = TRUE
    /\ selectedTopic' = topic
    /\ isQuizComplete' = FALSE
    /\ quizCalls' = Append(quizCalls,
           [pc |-> "wait",
            call |-> IF apiKeyOk THEN "request" ELSE "threw",
            at |-> now,
            topic |-> topic,
            outcome |-> "pending"])
    /\ UNCHANGED <<apiKeyOk, now, chatVars, viewMode, activeQuiz,
                   currentQuestionIndex, quizAnswers, quizCategory, alerts,
                   crashed, sends, otherVars>>

\* the await of generateQuiz settles and startQuiz runs on to its end (lines
\* 376-385); the render of the quiz view throws when activeQuiz has no
\* questions (line 573)
QuizSettles(k) ==
    /\ ~crashed
    /\ k \in DOMAIN quizCalls
    /\ quizCalls[k].pc = "wait"
    /\ quizCalls[k].call = "request" => now > quizCalls[k].at
    /\ \E response \in QuizResponses :
          LET c == quizCalls[k]
              outcome == IF c.call = "threw"
                         THEN [kind |-> "raise", quiz |-> NullQuiz]
                         ELSE generateQuiz(response, c.topic)
              failed == c.call = "threw" \/ response \in {"rejects", "badJson"}
          IN  /\ quizCalls' = [quizCalls EXCEPT
                                 ![k].pc = "done",
                                 ![k].outcome = IF failed THEN "failed"
                                                ELSE "returned"]
              /\ IF outcome.kind = "raise"
                 THEN /\ alerts' = alerts + 1
                      /\ UNCHANGED <<activeQuiz, quizAnswers,
                                     currentQuestionIndex, viewMode, crashed>>
                 ELSE /\ activeQuiz' = outcome.quiz
                      /\ quizAnswers' = [q \in 1..10 |-> <<>>]
                      /\ currentQuestionIndex' = 0
                      /\ viewMode' = "quizzes"
                      /\ crashed' = (outcome.quiz.kind # "quiz")
                      /\ UNCHANGED alerts
    /\ isThinking' = FALSE
    /\ UNCHANGED <<apiKeyOk, now, chatVars, quizCategory, selectedTopic,
                   isQuizComplete, sends, otherVars>>

\* a millisecond passes
Tick ==
    /\ now < MaxTime
    /\ now' = now + 1
    /\ UNCHANGED <<apiKeyOk, chatVars, isThinking, viewMode, quizVars, sends,
                   quizCalls, otherVars>>

AppNext ==
    \/ \E v \in InputTexts : TypeInput(v)
    \/ ToggleImage
    \/ \E v \in ViewModes : SetViewMode(v)
    \/ HandleSend
    \/ \E i \in 1..MaxSends : SolveSettles(i)
    \/ \E i \in 1..MaxSends : DiagramSettles(i)
    \/ \E c \in QuizCategories : PickCategory(c)
    \/ \E t \in QuizTopics : Len(quizCalls) < MaxQuizzes /\ StartQuiz(t)
    \/ \E k \in 1..MaxQuizzes : QuizSettles(k)
    \/ Tick

AppSpec == AppInit /\ [][AppNext]_vars

TypeOK ==
    /\ visibleBlockCount \in Nat
    /\ mounted \in BOOLEAN
    /\ pendingEffects \subseteq {"segment", "reveal", "unmount"}
    /\ Len(queuedBlocks) <= 1
    /\ staleTimers \subseteq timers
    /\ changes \in 0..MaxChanges
    /\ segPc \in {"loop", "done"}
    /\ rPc \in {"idle", "style", "split", "map", "done", "null", "raised"}
    /\ rStyle \in {"none", "answer", "header", "plain"}

(***************************************************************************)
(* Claims about the progressive revealer.                                  *)
(***************************************************************************)
\* the instance is at rest: no effect is scheduled, no state update is
\* queued and no timer is pending
Quiescent ==
    /\ pendingEffects = {}
    /\ queuedBlocks = <<>>
    /\ queuedCount = <<>>
    /\ timers = {}

\* C1: in every reachable state of a mounted instance the count of visible
\* blocks lies between 0 and the number of content blocks.
C1_CountWithinBlocks ==
    mounted =>
        /\ 0 <= visibleBlockCount
        /\ visibleBlockCount <= Len(contentBlocks)

\* C2: while the text of an instance has not changed since it was mounted,
\* every tick accounts for one step of the count, no tick comes after the
\* N-th (N the number of blocks of the text), and once N ticks are committed
\* the count is N and, the reveal effect having run, nothing but a text change
\* or an unmount can happen.
C2_RevealReachesAllAndStops ==
    (mounted /\ changes = 0) =>
        LET N == Len(Segment(text))
        IN  /\ ApplyCount(visibleBlockCount, queuedCount) = ticks
            /\ ticks <= N
            /\ (ticks = N /\ contentBlocks = Segment(text)
                  /\ queuedBlocks = <<>> /\ queuedCount = <<>>)
                 => /\ visibleBlockCount = N
                    /\ pendingEffects = {}
                         => /\ timers = {}
                            /\ ~ENABLED (FlushEffects \/ Render
                                          \/ \E h \in timers : TimerFire(h))

\* C2 witness: a text of four blocks, never changed, fully revealed by four
\* ticks and at rest.
C2_Witness ==
    /\ mounted /\ changes = 0
    /\ Len(contentBlocks) = 4 /\ contentBlocks = Segment(text)
    /\ ticks = 4 /\ visibleBlockCount = 4
    /\ Quiescent

\* C3: the render that commits the blocks computed after a change of the
\* text prop commits a count of 0 with them.
C3_ResetOnTextChange ==
    [][(mounted' /\ queuedBlocks # <<>> /\ queuedBlocks' = <<>>)
          => visibleBlockCount' = 0]_vars

\* C4: a timer set before a change of the text prop or before the unmount
\* never runs its callback afterwards.
C4_NoStaleTick ==
    [][\A h \in staleTimers : ~TimerFire(h)]_vars

\* C5: once the text has stopped changing and every scheduled effect, render
\* and timer has run, all the blocks of a mounted instance are visible: the
\* count has reached the number of blocks.
C5_AllVisibleAtRest ==
    (mounted /\ Quiescent) => visibleBlockCount = Len(contentBlocks)

\* the literal blocks of the scenario
ScenarioBlocks ==
    << [type |-> "text", content |-> <<"G","I","V","E","N",":">>, table |-> <<>>],
       [type |-> "text", content |-> <<"x","=","5">>, table |-> <<>>],
       [type |-> "table", content |-> <<>>,
        table |-> << << <<"a">>, <<"b">> >>, << <<"1">>, <<"2">> >> >>],
       [type |-> "text",
        content |-> <<"F","I","N","A","L"," ","A","N","S","W","E","R",":"," ","7">>,
        table |-> <<>>] >>

\* C10: an instance mounted with the scenario text holds no block at first
\* and then exactly the four scenario blocks, styled header, plain, table and
\* answer; each tick shows one more of them in order, and at rest four ticks
\* have shown all four.
C10_ScenarioSegmentsAndReveals ==
    (mounted /\ changes = 0 /\ text = ScenarioText) =>
        /\ contentBlocks = <<>> \/ contentBlocks = ScenarioBlocks
        /\ queuedBlocks # <<>> => queuedBlocks[1] = ScenarioBlocks
        /\ contentBlocks # <<>> =>
               /\ Len(contentBlocks) = 4
               /\ [i \in 1..4 |-> BlockStyle(contentBlocks[i])]
                     = <<"header", "plain", "table", "answer">>
               /\ VisibleBlocks = SubSeq(ScenarioBlocks, 1, visibleBlockCount)
        /\ ApplyCount(visibleBlockCount, queuedCount) = ticks
        /\ ticks <= 4
        /\ Quiescent => (visibleBlockCount = 4 /\ ticks = 4)

\* C10 witness: the scenario instance at rest with its four blocks visible
\* after four ticks.
C10_Witness ==
    /\ mounted /\ changes = 0 /\ text = ScenarioText
    /\ contentBlocks = ScenarioBlocks
    /\ VisibleBlocks = ScenarioBlocks
    /\ ticks = 4
    /\ Quiescent

\* the effects of the last commit have run and no state update is queued
\* for the next render
Settled ==
    /\ pendingEffects = {}
    /\ queuedBlocks = <<>>
    /\ queuedCount = <<>>

SeparatorShaped(line) ==
    /\ MatchesRowShape(line)
    /\ \A k \in 1..Len(line) : line[k] \in {"|", "-", ":"} \cup WhiteSpace

\* C6: the loop step that handles a separator-shaped line emits no block and
\* adds no row to the table being accumulated.
C6_SeparatorLineDiscarded ==
    [][(SegLoopStep /\ SeparatorShaped(lines[lineIdx])) => acc' = acc]_vars

\* line b is the last line of a maximal run of table-row lines
IsRunEnd(b) ==
    /\ IsTableRow(lines[b])
    /\ b = Len(lines) \/ ~IsTableRow(lines[b + 1])

\* the first line of the maximal run of table-row lines that holds line b
RunStart(b) ==
    CHOOSE a \in 1..b :
        /\ \A k \in a..b : IsTableRow(lines[k])
        /\ a = 1 \/ ~IsTableRow(lines[a - 1])

\* the last line of the maximal run of table-row lines that holds line c
RunEnd(c) ==
    CHOOSE d \in c..Len(lines) :
        /\ \A k \in c..d : IsTableRow(lines[k])
        /\ IsRunEnd(d)

\* the loop has just closed the run that ends at line b: it has handled the
\* line after it, or it has finished after the last line
RunJustClosed(b) ==
    \/ lineIdx = b + 2
    \/ segPc = "done" /\ b = Len(lines)

\* the blocks the loop has emitted when it reaches line a, the first line of
\* a run
BlocksBefore(a) == SegmentLines(EmptyAcc, SubSeq(lines, 1, a - 1)).blocks

NumTables(bs) == Cardinality({i \in DOMAIN bs : bs[i].type = "table"})

\* the lines a..b that the separator test of the segmenter does not discard
KeptLines(a, b) == {k \in a..b : ~IsSeparatorRow(lines[k])}

\* C7 as stated: once the loop has closed a maximal run of two or more
\* table-row lines, the run has added exactly one Table block.
C7_RunIsOneTable ==
    \A b \in 1..Len(lines) :
        (IsRunEnd(b) /\ RunJustClosed(b) /\ b - RunStart(b) >= 1) =>
            NumTables(acc.blocks) = NumTables(BlocksBefore(RunStart(b))) + 1

\* C7 amended: once the loop has closed a maximal run of two or more
\* table-row lines, the run has added exactly one Table block, holding one row
\* for each line the separator test keeps, when it keeps a line of the run,
\* and no Table block when it discards every line of the run.
C7_RunWithKeptLineIsOneTable ==
    \A b \in 1..Len(lines) :
        (IsRunEnd(b) /\ RunJustClosed(b) /\ b - RunStart(b) >= 1) =>
            LET a == RunStart(b)
                base == BlocksBefore(a)
            IN  IF KeptLines(a, b) # {}
                THEN /\ NumTables(acc.blocks) = NumTables(base) + 1
                     /\ Len(acc.blocks) > Len(base)
                     /\ acc.blocks[Len(base) + 1].type = "table"
                     /\ Len(acc.blocks[Len(base) + 1].table)
                          = Cardinality(KeptLines(a, b))
                ELSE NumTables(acc.blocks) = NumTables(base)

\* C7 witness: the loop has finished a text whose run of three table-row
\* lines, a separator row between two data rows, became one table of two rows.
C7_Witness ==
    /\ segPc = "done"
    /\ Len(lines) = 3
    /\ \A k \in 1..3 : IsTableRow(lines[k])
    /\ IsSeparatorRow(lines[2]) /\ ~IsSeparatorRow(lines[1])
    /\ ~IsSeparatorRow(lines[3])
    /\ Len(acc.blocks) = 1
    /\ Len(acc.blocks[1].table) = 2

\* line m is a line that is no table row, between two table-row lines
BetweenGroups(m) ==
    /\ 1 < m /\ m < Len(lines)
    /\ ~IsTableRow(lines[m])
    /\ IsTableRow(lines[m - 1])
    /\ IsTableRow(lines[m + 1])

\* the blocks from position from on are a Table block, the Text block of
\* line m when that line is not blank, and a second Table block
TwoTablesAround(bs, from, m) ==
    LET nb == IF Trim(lines[m]) # <<>> THEN 1 ELSE 0
    IN  /\ Len(bs) >= from + 1 + nb
        /\ bs[from].type = "table"
        /\ nb = 1 => bs[from + 1] = [type |-> "text", content |-> lines[m],
                                     table |-> <<>>]
        /\ bs[from + 1 + nb].type = "table"

\* C8 as stated: once the loop has closed the second of two groups of
\* table-row lines with one other line between them, it has emitted a Table
\* block for the first group, then the block of the line between, then a
\* Table block for the second group.
C8_TwoGroupsTwoTables ==
    \A m \in 1..Len(lines) :
        (BetweenGroups(m) /\ RunJustClosed(RunEnd(m + 1))) =>
            TwoTablesAround(acc.blocks,
                            Len(BlocksBefore(RunStart(m - 1))) + 1, m)

\* C8 amended: the same, for two groups in each of which the separator test
\* keeps at least one line.
C8_TwoKeptGroupsTwoTables ==
    \A m \in 1..Len(lines) :
        (/\ BetweenGroups(m)
         /\ RunJustClosed(RunEnd(m + 1))
         /\ KeptLines(RunStart(m - 1), m - 1) # {}
         /\ KeptLines(m + 1, RunEnd(m + 1)) # {}) =>
            TwoTablesAround(acc.blocks,
                            Len(BlocksBefore(RunStart(m - 1))) + 1, m)

\* C8 witness: the loop has finished a data row, a line that is not blank and
\* a second data row, as a table, a text block and a table.
C8_Witness ==
    /\ segPc = "done"
    /\ Len(lines) = 3
    /\ BetweenGroups(2)
    /\ Trim(lines[2]) # <<>>
    /\ KeptLines(1, 1) # {} /\ KeptLines(3, 3) # {}
    /\ Len(acc.blocks) = 3
    /\ acc.blocks[1].type = "table" /\ acc.blocks[3].type = "table"
    /\ acc.blocks[2].type = "text"

\* the cells between the outer pipes of a table-row line, each trimmed
InteriorCells(line) ==
    LET t == Trim(line)
        fields == Split(SubSeq(t, 2, Len(t) - 1), "|")
    IN  [i \in 1..Len(fields) |-> Trim(fields[i])]

\* the lines and rows the blocks hold, in block order
RECURSIVE BlockData(_)
BlockData(bs) ==
    IF bs = <<>> THEN <<>>
    ELSE (IF Head(bs).type = "text"
          THEN <<[kind |-> "line", data |-> <<Head(bs).content>>]>>
          ELSE [i \in 1..Len(Head(bs).table) |->
                   [kind |-> "row", data |-> Head(bs).table[i]]])
         \o BlockData(Tail(bs))

\* the lines and rows of the source: each line that is no table row and not
\* blank as it is, each table-row line that is not separator-shaped as its
\* interior cells
RECURSIVE SourceData(_)
SourceData(ls) ==
    IF ls = <<>> THEN <<>>
    ELSE (IF IsTableRow(Head(ls))
          THEN IF SeparatorShaped(Head(ls)) THEN <<>>
               ELSE <<[kind |-> "row", data |-> InteriorCells(Head(ls))]>>
          ELSE IF Trim(Head(ls)) # <<>>
               THEN <<[kind |-> "line", data |-> <<Head(ls)>>]>>
               ELSE <<>>)
         \o SourceData(Tail(ls))

\* C9: the finished loop's blocks hold, in order and with nothing missing or
\* added, the lines that are not blank and the interior cells of the table
\* rows that are not separator-shaped.
C9_SegmentationLossless ==
    segPc = "done" => BlockData(acc.blocks) = SourceData(lines)

(***************************************************************************)
(* Claims about the block stylist and the math fragment renderer, stated   *)
(* on the render of one line.                                              *)
(***************************************************************************)
\* the render of the line has ended: the fragments are returned, or null is,
\* or an exception left renderTextWithMath
RenderEnded == rPc \in {"done", "null", "raised"}

\* C11: a Text block gets one style, by priority: answer when the line
\* contains "FINAL ANSWER:", else header when it contains "GIVEN:" or "STEPS:"
\* or starts with "Part", else plain; and nothing of the header's rendering
\* (its dot) goes to a line that is not styled header.
C11_OneStyleByPriority ==
    (rKind = "text" /\ rPc \notin {"idle", "style"}) =>
        /\ rStyle =
             IF Includes(rLine, FinalAnswerMarker) THEN "answer"
             ELSE IF \/ Includes(rLine, GivenMarker)
                     \/ Includes(rLine, StepsMarker)
                     \/ StartsWith(rLine, PartPrefix)
                  THEN "header"
                  ELSE "plain"
        /\ rDot => rStyle = "header"

\* the line $x^2$ of the specification
XSquaredLine == <<"$","x","^","2","$">>

PlainFragment(t) == [kind |-> "plain", text |-> t]

MathFragment(src) == [kind |-> "math", text |-> src]

\* C12 as stated: a line without a dollar sign is rendered as one plain
\* fragment equal to the line; the line $x^2$, typeset without failure, has
\* exactly one math fragment, of source x^2.
C12_NoDollarOnePlainFragment ==
    RenderEnded =>
        /\ ~Includes(rLine, <<"$">>) =>
               rPc = "done" /\ rFrags = <<PlainFragment(rLine)>>
        /\ (rLine = XSquaredLine /\ rThrown = {}) =>
               /\ rPc = "done"
               /\ \E i \in DOMAIN rFrags :
                     /\ rFrags[i] = MathFragment(<<"x","^","2">>)
                     /\ \A j \in DOMAIN rFrags \ {i} : rFrags[j].kind # "math"

\* C12 amended: the empty line is rendered as nothing (null, no fragment); a
\* line that is not empty and has no dollar sign as one plain fragment equal
\* to the line; the line $x^2$, typeset without failure, as an empty plain
\* fragment, one math fragment of source x^2 and an empty plain fragment.
C12_NonEmptyNoDollarOnePlainFragment ==
    RenderEnded =>
        /\ rLine = <<>> => rPc = "null" /\ rFrags = <<>>
        /\ (rLine # <<>> /\ ~Includes(rLine, <<"$">>)) =>
               rPc = "done" /\ rFrags = <<PlainFragment(rLine)>>
        /\ (rLine = XSquaredLine /\ rThrown = {}) =>
               /\ rPc = "done"
               /\ rFrags = << PlainFragment(<<>>),
                              MathFragment(<<"x","^","2">>),
                              PlainFragment(<<>>) >>

\* C12 witness: the line $x^2$ rendered, its typesetting call having
\* returned.
C12_Witness ==
    /\ rPc = "done"
    /\ rLine = XSquaredLine
    /\ rThrown = {}
    /\ Len(rFrags) = 3
    /\ rFrags[2].kind = "math"

\* C13: no exception leaves renderTextWithMath, whatever the typesetting
\* calls do; a part whose typesetting call threw is rendered as the raw part,
\* and every other part as it is when no call throws: a math part as its
\* typeset source, any other part as itself.
C13_TypesetFailureDegrades ==
    /\ rPc # "raised"
    /\ rPc = "done" =>
           /\ Len(rFrags) = Len(rParts)
           /\ \A i \in DOMAIN rParts :
                 rFrags[i] =
                    IF i \in rThrown
                    THEN [kind |-> "raw", text |-> rParts[i]]
                    ELSE IF /\ Len(rParts[i]) >= 1
                            /\ rParts[i][1] = "$"
                            /\ rParts[i][Len(rParts[i])] = "$"
                         THEN MathFragment(SubSeq(rParts[i], 2,
                                                  Len(rParts[i]) - 1))
                         ELSE PlainFragment(rParts[i])

\* C13 witness: a line rendered with one typesetting call that threw and
\* another that returned.
C13_Witness ==
    /\ rPc = "done"
    /\ rThrown # {}
    /\ \E i \in DOMAIN rFrags : rFrags[i].kind = "raw" /\ rFrags[i].text # <<>>
    /\ \E j \in DOMAIN rFrags : rFrags[j].kind = "math"

\* row r is among the rows of the table before its last row
HoldsRowBeforeLast(table, r) ==
    \E p \in 1..(Len(table) - 1) : table[p] = r

\* lines i and j are table rows that are not separator-shaped, with at least
\* one line between them and only separator-shaped lines between them
AroundSeparators(i, j) ==
    /\ i + 1 < j
    /\ IsTableRow(lines[i]) /\ ~SeparatorShaped(lines[i])
    /\ IsTableRow(lines[j]) /\ ~SeparatorShaped(lines[j])
    /\ \A k \in (i + 1)..(j - 1) : SeparatorShaped(lines[k])

\* the run of table-row lines that ends at line b holds separator-shaped
\* lines only
SeparatorsOnlyRun(b) ==
    /\ IsRunEnd(b)
    /\ \A k \in RunStart(b)..b : SeparatorShaped(lines[k])

\* C19, the separator between rows: when the loop has handled the table row
\* after the separator rows that follow a table row, the table being
\* accumulated holds both rows and no block was emitted between them.
C19_RowsAroundSeparatorShareTable ==
    \A i, j \in 1..Len(lines) :
        (AroundSeparators(i, j) /\ segPc = "loop" /\ lineIdx = j + 1) =>
            /\ acc.blocks = BlocksBefore(i)
            /\ acc.currentTable # <<>>
            /\ acc.currentTable[Len(acc.currentTable)]
                 = InteriorCells(lines[j])
            /\ HoldsRowBeforeLast(acc.currentTable, InteriorCells(lines[i]))

\* C19: a separator row neither closes nor opens a table: the rows before
\* and after separator rows end up in the same table, and a run of separator
\* rows that touches no other table row adds no Table block.
C19_SeparatorNeitherClosesNorOpens ==
    /\ C19_RowsAroundSeparatorShareTable
    /\ \A b \in 1..Len(lines) :
          (SeparatorsOnlyRun(b) /\ RunJustClosed(b)) =>
              NumTables(acc.blocks) = NumTables(BlocksBefore(RunStart(b)))

\* the line holds a character that is not white space
NonBlank(line) == \E k \in 1..Len(line) : line[k] \notin WhiteSpace

\* C20: the loop step that handles a line that is no table row first emits
\* the table being accumulated, when it holds a row, as a Table block and
\* clears it, then emits a Text block holding the line as it is, untrimmed,
\* if and only if the line is not blank.
C20_NonTableLineFlushesThenEmits ==
    [][(SegLoopStep /\ ~MatchesRowShape(lines[lineIdx])) =>
          LET line == lines[lineIdx]
              flushed ==
                  IF acc.currentTable # <<>>
                  THEN Append(acc.blocks,
                              [type |-> "table", content |-> <<>>,
                               table |-> acc.currentTable])
                  ELSE acc.blocks
          IN  /\ acc'.currentTable = <<>>
              /\ acc'.blocks =
                    IF NonBlank(line)
                    THEN Append(flushed, [type |-> "text", content |-> line,
                                          table |-> <<>>])
                    ELSE flushed]_vars

\* C20 witness: the loop has handled a data row and then a line that is no
\* table row and starts with a blank: a Table block, then the Text block of
\* the untrimmed line.
C20_Witness ==
    /\ segPc = "loop"
    /\ lineIdx = 3
    /\ IsTableRow(lines[1]) /\ ~IsSeparatorRow(lines[1])
    /\ ~MatchesRowShape(lines[2])
    /\ NonBlank(lines[2]) /\ Trim(lines[2]) # lines[2]
    /\ Len(acc.blocks) = 2
    /\ acc.blocks[1].type = "table"
    /\ acc.blocks[2] = [type |-> "text", content |-> lines[2], table |-> <<>>]
    /\ acc.currentTable = <<>>

\* the step is the one in which the diagram call of send i settles
DiagramSettled(i) ==
    /\ i \in DOMAIN sends
    /\ sends[i].pc = "diagram"
    /\ sends'[i].pc = "done"
    /\ sends'[i].diagram \in {"url", "absent"}

\* C14: the result of the diagram call of a send is applied to the assistant
\* message that send appended and to no other: the step in which the call
\* settles clears isGeneratingDiagram of that message and leaves every other
\* message as it was, whatever was appended or sent in the meantime.
C14_DiagramAppliedToOwnMessageOnly ==
    [][\A i \in 1..MaxSends :
          DiagramSettled(i) =>
             /\ DOMAIN messages' = DOMAIN messages
             /\ \A k \in DOMAIN messages :
                   IF k = sends[i].asstPos
                   THEN /\ messages'[k].id = sends[i].asstId
                        /\ ~messages'[k].isGeneratingDiagram
                   ELSE messages'[k] = messages[k]]_vars

\* the step is the one in which the solve request of send i fails: it
\* settles with an error result, or solveMathProblem rejects
SolveFailed(i) ==
    /\ i \in DOMAIN sends
    /\ sends[i].solved = "pending"
    /\ sends'[i].solved \in {"error", "rejected"}

\* C15: the step in which a solve request fails appends one message, an
\* assistant message flagged isError whose content is the message of the
\* error result or, for a rejection, the fallback text; it records no saved
\* problem, changes no stat, ends the send and sets isThinking to false.
C15_SolveFailureIsShownAndRecovered ==
    [][\A i \in 1..MaxSends :
          SolveFailed(i) =>
             LET last == messages'[Len(messages')]
             IN  /\ messages' = Append(messages, last)
                 /\ last.role = "assistant"
                 /\ last.isError
                 /\ ~last.isGeneratingDiagram
                 /\ last.content # ""
                 /\ last.content =
                       IF sends'[i].solved = "error"
                       THEN sends'[i].result.message
                       ELSE "Protocol error."
                 /\ savedProblems' = savedProblems
                 /\ userStats' = userStats
                 /\ sends'[i].pc = "done"
                 /\ isThinking' = FALSE]_vars

\* C15 witness: the solve request of the first send failed with an error
\* result, its message is shown as an error, nothing was saved, and a later
\* send was accepted.
C15_Witness ==
    /\ Len(sends) = 2
    /\ sends[1].solved = "error"
    /\ sends[1].pc = "done"
    /\ messages[sends[1].asstPos].isError
    /\ messages[sends[1].asstPos].content = "Uplink synchronization failure."
    /\ sends[2].at > sends[1].at
    /\ savedProblems = <<>>
    /\ userStats.problemsSolved = 0

\* the step is the one in which generateQuiz raises into the startQuiz call k
QuizRaised(k) ==
    /\ k \in DOMAIN quizCalls
    /\ quizCalls[k].outcome = "pending"
    /\ quizCalls'[k].outcome = "failed"

\* C16: the step in which generateQuiz raises shows the failure notice once
\* and enters no quiz: activeQuiz, quizAnswers, currentQuestionIndex and
\* viewMode keep their values, the view does not break, and isThinking is
\* set to false.
C16_QuizFailureEntersNoQuiz ==
    [][\A k \in 1..MaxQuizzes :
          QuizRaised(k) =>
             /\ alerts' = alerts + 1
             /\ activeQuiz' = activeQuiz
             /\ quizAnswers' = quizAnswers
             /\ currentQuestionIndex' = currentQuestionIndex
             /\ viewMode' = viewMode
             /\ crashed' = crashed
             /\ isThinking' = FALSE]_vars

\* C16 witness: a quiz request was made and generateQuiz raised: the notice
\* was shown, no quiz is active and the quiz view still offers the topics.
C16_Witness ==
    /\ Len(quizCalls) = 1
    /\ quizCalls[1].call = "request"
    /\ quizCalls[1].outcome = "failed"
    /\ alerts = 1
    /\ activeQuiz = NullQuiz
    /\ quizAnswers = <<>>
    /\ viewMode = "quizzes"
    /\ ~isThinking
    /\ ~crashed

\* the diagram call of send i has settled
DiagramCompleted(i) ==
    /\ sends[i].pc = "done"
    /\ sends[i].diagram # "none"

\* C17, in states: no diagram call raises into handleSend; the message of a
\* send whose diagram call has settled is no longer generating a diagram;
\* and a message that is generating a diagram belongs to a send whose call
\* is outstanding.
C17_NoRaiseAndFlagCleared ==
    /\ \A i \in DOMAIN sends :
          /\ sends[i].diagram \in {"none", "pending", "url", "absent"}
          /\ DiagramCompleted(i) =>
                ~messages[sends[i].asstPos].isGeneratingDiagram
    /\ \A k \in DOMAIN messages :
          messages[k].isGeneratingDiagram =>
             \E i \in DOMAIN sends :
                /\ sends[i].pc = "diagram"
                /\ sends[i].asstId = messages[k].id

\* C17: generateDiagram never raises into handleSend; the step in which it
\* settles with absence leaves the diagramUrl of the send's assistant
\* message unset and sets its isGeneratingDiagram to false, and handleSend
\* runs on to its end; so a message whose isGeneratingDiagram was set has it
\* false once the call has settled.
C17_DiagramAbsenceIsSwallowed ==
    /\ []C17_NoRaiseAndFlagCleared
    /\ [][\A i \in 1..MaxSends :
             (DiagramSettled(i) /\ sends'[i].diagram = "absent") =>
                /\ messages'[sends[i].asstPos].diagramUrl = NoUrl
                /\ ~messages'[sends[i].asstPos].isGeneratingDiagram
                /\ Len(messages') = Len(messages)
                /\ isThinking' = FALSE]_vars

\* C17 witness: the solve of a send asked for a diagram, the diagram call
\* settled with absence, and the send's message shows no diagram and is no
\* longer generating one.
C17_Witness ==
    \E i \in DOMAIN sends :
       /\ sends[i].result.diagramPrompt # ""
       /\ sends[i].pc = "done"
       /\ sends[i].diagram = "absent"
       /\ messages[sends[i].asstPos].id = sends[i].asstId
       /\ messages[sends[i].asstPos].diagramUrl = NoUrl
       /\ ~messages[sends[i].asstPos].isGeneratingDiagram

\* ignoring surrounding white space, the line begins with a pipe, ends with
\* a pipe and holds at least one pipe between the two
PipesWithInterior(line) ==
    LET t == Trim(line)
    IN  /\ Len(t) >= 3
        /\ t[1] = "|"
        /\ t[Len(t)] = "|"
        /\ \E k \in 2..(Len(t) - 1) : t[k] = "|"

\* C21: the loop step handles its line as a table row (no block is emitted,
\* the table being accumulated is kept, with the cells of the line added or
\* not) if and only if, ignoring surrounding white space, the line begins
\* with a pipe, ends with a pipe and holds at least one pipe between them;
\* any other line is handled as a line that is no row (the table is flushed
\* and the line, unless blank, is emitted as a Text block).
C21_RowIffPipesWithInterior ==
    [][SegLoopStep =>
          LET line == lines[lineIdx]
              flushed == FlushTable(acc)
          IN  IF PipesWithInterior(line)
              THEN /\ acc'.blocks = acc.blocks
                   /\ acc'.currentTable \in
                         {acc.currentTable,
                          Append(acc.currentTable, Cells(line))}
              ELSE acc' = IF Trim(line) # <<>>
                          THEN [flushed EXCEPT
                                  !.blocks = Append(@, TextBlock(line))]
                          ELSE flushed]_vars

\* the spans of the split that are no matches of the pattern: a split on a
\* pattern with a capture group alternates spans and matches, spans first
IsSpanIndex(k) == k % 2 = 1

\* C22: every span of the line that is no match of the pattern is rendered
\* as a plain fragment holding the span unchanged, and is not handed to the
\* typesetting function.
C22_SpansArePlain ==
    rPc \in {"map", "done"} =>
        \A k \in 1..Len(rFrags) :
            IsSpanIndex(k) => rFrags[k] = PlainFragment(rParts[k])

(***************************************************************************)
(* The turns solveMathProblem sends (src/unnamed/part_000 lines 186-211),  *)
(* for the calls handleSend makes: the history is the messages with the    *)
(* new user message last, and the query is that message's content.         *)
(***************************************************************************)
\* how many messages the chat holds before the new user message, at most
MaxHistory == 4

\* the contents of the messages of a history, by position
MessageTexts == <<"m1", "m2", "m3", "m4", "m5", "m6", "m7", "m8">>

\* the histories: messages of either role in any order, then the new user
\* message
Histories ==
    UNION { { [k \in 1..(n + 1) |->
                 [role |-> IF k = n + 1 THEN "user" ELSE roles[k],
                  content |-> MessageTexts[k]]] :
              roles \in [1..n -> {"user", "assistant"}] } :
            n \in 0..MaxHistory }

\* LastMessages without the slice
WholeHistory(history) == history

\* history.slice(-4)
LastMessages(history) ==
    SubSeq(history, IF Len(history) > 4 THEN Len(history) - 3 ELSE 1,
           Len(history))

\* const role = msg.role === 'user' ? 'user' : 'model'
TurnRole(msg) == IF msg.role = "user" THEN "user" ELSE "model"

\* the forEach callback (lines 190-193): the message becomes a turn unless
\* the last turn has its role
PushTurn(cs, msg) ==
    IF cs = <<>> \/ cs[Len(cs)].role # TurnRole(msg)
    THEN Append(cs, [role |-> TurnRole(msg), text |-> msg.content,
                     image |-> FALSE])
    ELSE cs

\* lines 196-211: the user parts, the pop of a last user turn, the push of
\* the new turn
PushQuery(cs, query, image) ==
    LET kept == IF cs # <<>> /\ cs[Len(cs)].role = "user"
                THEN SubSeq(cs, 1, Len(cs) - 1) ELSE cs
    IN  Append(kept,
               [role |-> "user",
                text |-> FirstTruthy(query, "Hi NEXTLEVEL!", ""),
                image |-> image])

TurnInit ==
    /\ tHistory \in Histories
    /\ tQuery = tHistory[Len(tHistory)].content
    /\ tImage \in BOOLEAN
    /\ contents = <<>>
    /\ tIdx = 1
    /\ tPc = "loop"
    /\ ReadoutIdle
    /\ SegIdle
    /\ LineIdle
    /\ AppIdle

\* one call of the history.slice(-4).forEach callback
TurnLoopStep ==
    /\ tPc = "loop"
    /\ tIdx <= Len(LastMessages(tHistory))
    /\ contents' = PushTurn(contents, LastMessages(tHistory)[tIdx])
    /\ tIdx' = tIdx + 1
    /\ UNCHANGED <<tHistory, tQuery, tImage, tPc, readoutVars, segVars,
                   lineVars, appVars>>

\* the new turn is added and contents goes into the request
TurnSend ==
    /\ tPc = "loop"
    /\ tIdx > Len(LastMessages(tHistory))
    /\ contents' = PushQuery(contents, tQuery, tImage)
    /\ tPc' = "sent"
    /\ UNCHANGED <<tHistory, tQuery, tImage, tIdx, readoutVars, segVars,
                   lineVars, appVars>>

TurnNext == TurnLoopStep \/ TurnSend

TurnSpec == TurnInit /\ [][TurnNext]_vars

\* the positions in the history of the messages whose content is t
PositionsOf(t) == {k \in 1..Len(tHistory) : tHistory[k].content = t}

\* C23: the turns sent have strictly alternating roles; the last one is a
\* user turn that carries the query (and the image, when there is one); and
\* the turns before it are taken, in order, from the last 4 messages of the
\* history, each with the role and the content of its message.
C23_TurnsAlternateAndEndWithQuery ==
    tPc = "sent" =>
        LET n == Len(contents)
        IN  /\ n >= 1
            /\ \A k \in 1..(n - 1) : contents[k].role # contents[k + 1].role
            /\ contents[n] = [role |-> "user", text |-> tQuery,
                              image |-> tImage]
            /\ n - 1 <= 4
            /\ \A k \in 1..(n - 1) :
                  \E p \in PositionsOf(contents[k].text) :
                     /\ p > Len(tHistory) - 4
                     /\ contents[k].role = TurnRole(tHistory[p])
                     /\ ~contents[k].image
            /\ \A j, k \in 1..(n - 1) :
                  j < k => \A p \in PositionsOf(contents[j].text),
                              q \in PositionsOf(contents[k].text) : p < q

\* C23 witness: a history of more than 4 messages with two adjacent messages
\* of one role among the last 4; the turns sent are fewer than the messages
\* sliced and the first of them is the fourth message from the end.
C23_Witness ==
    /\ tPc = "sent"
    /\ Len(tHistory) = 5
    /\ tHistory[2].role = "assistant"
    /\ tHistory[3].role = "assistant"
    /\ tHistory[4].role = "user"
    /\ contents =
          << [role |-> "model", text |-> "m2", image |-> FALSE],
             [role |-> "user", text |-> "m5", image |-> tImage] >>

\* C24: every Table block the segmenter has emitted holds at least one row,
\* and every row, emitted or still being accumulated, holds at least one
\* cell; so the header row of a Table block can be read.
C24_TablesHaveRowsAndCells ==
    /\ \A b \in 1..Len(acc.blocks) :
          acc.blocks[b].type = "table" =>
             /\ Len(acc.blocks[b].table) >= 1
             /\ \A r \in 1..Len(acc.blocks[b].table) :
                   Len(acc.blocks[b].table[r]) >= 1
    /\ \A r \in 1..Len(acc.currentTable) : Len(acc.currentTable[r]) >= 1

\* C24 witness: the text has been segmented, a row with one cell among its
\* lines, and the blocks hold a Table block of one row of one cell.
C24_Witness ==
    /\ segPc = "done"
    /\ \E b \in 1..Len(acc.blocks) :
          /\ acc.blocks[b].type = "table"
          /\ Len(acc.blocks[b].table) = 1
          /\ Len(acc.blocks[b].table[1]) = 1
    /\ \E b \in 1..Len(acc.blocks) : acc.blocks[b].type = "text"

\* a fragment written back as text: a math fragment as its source between
\* dollar signs, a plain or raw fragment as it is
WrittenBack(frag) ==
    IF frag.kind = "math" THEN <<"$">> \o frag.text \o <<"$">> ELSE frag.text

RECURSIVE ConcatWrittenBack(_)
ConcatWrittenBack(frags) ==
    IF frags = <<>> THEN <<>>
    ELSE WrittenBack(Head(frags)) \o ConcatWrittenBack(Tail(frags))

\* C25: the fragments of a non-empty line, written back in order with each
\* math fragment as '$' + source + '$', give the line again, character by
\* character.
C25_FragmentsGiveTheLineBack ==
    (rPc = "done" /\ rLine # <<>>) => ConcatWrittenBack(rFrags) = rLine

\* C25 witness: a line with a plain span, a math span that was typeset and
\* another plain span has been rendered.
C25_Witness ==
    /\ rPc = "done"
    /\ rLine = <<"a"," ","$","x","$"," ","b">>
    /\ rFrags = << PlainFragment(<<"a"," ">>), MathFragment(<<"x">>),
                   PlainFragment(<<" ","b">>) >>

\* the sends whose handleSend has not reached the end of its finally block
SendsInProgress == {i \in DOMAIN sends : sends[i].pc # "done"}

\* the calls of startQuiz whose request is outstanding
QuizzesInProgress == {k \in DOMAIN quizCalls : quizCalls[k].pc # "done"}

\* C26: at most one send is in progress at any time, and a send is in
\* progress only while no quiz request is outstanding that it did not find
\* finished when it was accepted: the step that accepts a send is taken only
\* when no solve, diagram or quiz request is outstanding.
C26_OneSendAtATime ==
    /\ [](Cardinality(SendsInProgress) <= 1)
    /\ [][Len(sends') > Len(sends) =>
             (SendsInProgress = {} /\ QuizzesInProgress = {})]_vars

\* the step accepts a send
SendAccepted == Len(sends') = Len(sends) + 1

\* the step is the one in which the solve request of send i completes
SolveCompleted(i) ==
    /\ i \in DOMAIN sends
    /\ sends[i].solved = "pending"
    /\ sends'[i].solved # "pending"

\* C27: a send is accepted only with isThinking false and an input that is
\* not blank or an image, and the step that accepts it appends the user's
\* message; the step in which its solve request completes, with a result,
\* an error result or a rejection, appends exactly one message, an
\* assistant message, after that user message; the send appends no other
\* message.
C27_SendAppendsUserThenOneAssistant ==
    [][/\ SendAccepted =>
             LET s == sends'[Len(sends')]
             IN  /\ ~isThinking
                 /\ (inputValue \notin {"", " "} \/ selectedImage)
                 /\ messages' = Append(messages, messages'[Len(messages')])
                 /\ s.userPos = Len(messages')
                 /\ messages'[s.userPos].role = "user"
                 /\ messages'[s.userPos].content = s.content
                 /\ s.content =
                       IF inputValue # "" THEN inputValue
                       ELSE "Please analyze this mathematical input."
       /\ \A i \in 1..MaxSends :
             /\ SolveCompleted(i) =>
                   /\ messages' = Append(messages, messages'[Len(messages')])
                   /\ messages'[Len(messages')].role = "assistant"
                   /\ sends[i].userPos < Len(messages')
                   /\ messages'[sends[i].userPos].role = "user"
                   /\ messages'[sends[i].userPos].id = sends[i].userId
             /\ DiagramSettled(i) => Len(messages') = Len(messages)
       /\ (~SendAccepted /\ \A i \in 1..MaxSends : ~SolveCompleted(i)) =>
             Len(messages') = Len(messages)]_vars

\* C27 witness: two sends were accepted and completed, one with a result and
\* one by rejection or with an error result; the chat holds the welcome
\* message and, for each send, the user's message and one assistant message.
C27_Witness ==
    /\ Len(sends) = 2
    /\ sends[1].pc = "done" /\ sends[2].pc = "done"
    /\ sends[1].solved = "ok"
    /\ sends[2].solved \in {"error", "rejected"}
    /\ Len(messages) = 5
    /\ messages[2].role = "user" /\ messages[3].role = "assistant"
    /\ messages[4].role = "user" /\ messages[5].role = "assistant"
    /\ messages[5].isError

\* C28: problemsSolved equals the number of saved problems; a step adds an
\* entry, and increments the counter, only for a solve result with a topic
\* and no error; and the solution of every entry is the content of the
\* assistant message with the entry's id.
C28_SavedProblemsMatchStatsAndMessages ==
    /\ [](/\ userStats.problemsSolved = Len(savedProblems)
          /\ \A e \in 1..Len(savedProblems) :
                /\ \E k \in DOMAIN messages :
                      /\ messages[k].role = "assistant"
                      /\ messages[k].id = savedProblems[e].id
                /\ \A k \in DOMAIN messages :
                      (/\ messages[k].role = "assistant"
                       /\ messages[k].id = savedProblems[e].id) =>
                         messages[k].content = savedProblems[e].solution)
    /\ [][savedProblems' # savedProblems =>
             \E i \in DOMAIN sends :
                /\ sends[i].pc # "done" /\ sends'[i].pc = "done"
                /\ sends'[i].result.topic # ""
                /\ sends'[i].result.error = ""
                /\ Len(savedProblems') = Len(savedProblems) + 1
                /\ savedProblems'[1].id = sends'[i].asstId
                /\ savedProblems'[1].topic = sends'[i].result.topic]_vars

(***************************************************************************)
(* The quiz view (App.tsx lines 538-603) with the calls of startQuiz: the  *)
(* sidebar, the category and topic buttons, the option buttons and the     *)
(* button under the question.  No message is sent.                         *)
(***************************************************************************)
QuizInit == AppInit /\ apiKeyOk

\* the click on option o of the question shown (lines 576-581)
AnswerOption(o) ==
    /\ ~crashed
    /\ viewMode = "quizzes"
    /\ activeQuiz.kind = "quiz"
    /\ o \in 0..(activeQuiz.questions[currentQuestionIndex + 1] - 1)
    /\ quizAnswers[currentQuestionIndex + 1] = <<>>
    /\ quizAnswers' = [quizAnswers EXCEPT ![currentQuestionIndex + 1] = <<o>>]
    /\ UNCHANGED <<apiKeyOk, now, chatVars, isThinking, viewMode, activeQuiz,
                   currentQuestionIndex, quizCategory, selectedTopic,
                   isQuizComplete, alerts, crashed, sends, quizCalls,
                   otherVars>>

\* NextQuestion with the button never disabled
NextQuestionAlways ==
    /\ ~crashed
    /\ viewMode = "quizzes"
    /\ activeQuiz.kind = "quiz"
    /\ IF currentQuestionIndex < 9
       THEN /\ currentQuestionIndex' = currentQuestionIndex + 1
            /\ UNCHANGED isQuizComplete
       ELSE /\ isQuizComplete' = TRUE
            /\ UNCHANGED currentQuestionIndex
    /\ UNCHANGED <<apiKeyOk, now, chatVars, isThinking, viewMode, activeQuiz,
                   quizAnswers, quizCategory, selectedTopic, alerts, crashed,
                   sends, quizCalls, otherVars>>

\* the click on the button under the question (lines 594-597), which is
\* disabled until the question shown is answered
NextQuestion ==
    /\ ~crashed
    /\ viewMode = "quizzes"
    /\ activeQuiz.kind = "quiz"
    /\ quizAnswers[currentQuestionIndex + 1] # <<>>
    /\ IF currentQuestionIndex < 9
       THEN /\ currentQuestionIndex' = currentQuestionIndex + 1
            /\ UNCHANGED isQuizComplete
       ELSE /\ isQuizComplete' = TRUE
            /\ UNCHANGED currentQuestionIndex
    /\ UNCHANGED <<apiKeyOk, now, chatVars, isThinking, viewMode, activeQuiz,
                   quizAnswers, quizCategory, selectedTopic, alerts, crashed,
                   sends, quizCalls, otherVars>>

QuizNext ==
    \/ \E v \in ViewModes : SetViewMode(v)
    \/ \E c \in QuizCategories : PickCategory(c)
    \/ \E t \in QuizTopics : Len(quizCalls) < MaxQuizStarts /\ StartQuiz(t)
    \/ \E k \in 1..MaxQuizStarts : QuizSettles(k)
    \/ \E o \in 0..1 : AnswerOption(o)
    \/ NextQuestion
    \/ Tick

QuizSpec == QuizInit /\ [][QuizNext]_vars

\* C29: while activeQuiz is set, currentQuestionIndex is between 0 and 9,
\* quizAnswers has 10 entries and every question before the one shown is
\* answered; and isQuizComplete goes from false to true only in a state in
\* which all 10 questions are answered.
C29_QuizProgressIsConsistent ==
    /\ [](activeQuiz # NullQuiz =>
             /\ currentQuestionIndex \in 0..9
             /\ Len(quizAnswers) = 10
             /\ \A q \in 0..(currentQuestionIndex - 1) :
                   quizAnswers[q + 1] # <<>>)
    /\ [][(~isQuizComplete /\ isQuizComplete') =>
             /\ Len(quizAnswers) = 10
             /\ \A q \in 1..10 : quizAnswers[q] # <<>>
             /\ quizAnswers' = quizAnswers]_vars

\* C29 witness: the quiz has been answered to its last question and
\* completed.
C29_Witness ==
    /\ activeQuiz.kind = "quiz"
    /\ currentQuestionIndex = 9
    /\ isQuizComplete
    /\ \A q \in 1..10 : quizAnswers[q] # <<>>

\* C30: an answer, once given, stays: no step changes or clears an entry of
\* quizAnswers that holds an answer, whatever the order of option clicks,
\* navigation and completions of quiz requests.
C30_AnswersAreNeverChanged ==
    [][\A q \in 1..Len(quizAnswers) :
          quizAnswers[q] # <<>> =>
             /\ q <= Len(quizAnswers')
             /\ quizAnswers'[q] = quizAnswers[q]]_vars

=============================================================================
